---- MODULE Spec2Model ----
(***************************************************************************)
(* Model of moviehash (src/src/lib.rs): MovieHash::from_path, the          *)
(* MovieHash value type with its hexadecimal rendering, and the Error      *)
(* type with its Display messages.                                         *)
(*                                                                         *)
(* A u64 is a tuple of four 16-bit limbs, most significant first, so that  *)
(* 64-bit wraparound is kept exactly.  Bytes are 0..255.                   *)
(* The window is ChunkWords words long; the source fixes it at 8192 words  *)
(* (CHUNK_SIZE = 65536 bytes) and derives word_count = CHUNK_SIZE / 8.     *)
(* The BufReader of line 52 is modelled with its buffer: a read_exact is   *)
(* served from the buffer and refills it from the file, CHUNK_SIZE bytes   *)
(* at most, only when the buffer is empty.  A read interrupted by a signal *)
(* is retried by read_exact and changes nothing, so it is left out.        *)
(***************************************************************************)
EXTENDS Integers, Sequences, FiniteSets, TLC

VARIABLES fs, touched, handles, call, obj, hex_out, disp_out, msg_out

vars == <<fs, touched, handles, call, obj, hex_out, disp_out, msg_out>>

(* ---------------------------- bounds ---------------------------------- *)
ChunkWords == 2
NumCalls == 2
MaxTruncations == 1

(* --------------------------- constants -------------------------------- *)
WordBytes == 8
CHUNK_SIZE == ChunkWords * WordBytes
word_count == CHUNK_SIZE \div WordBytes
HexWidth == 16

Calls == 1..NumCalls
Paths == {"a", "b"}

Min(a, b) == IF a < b THEN a ELSE b

(* ------------------------------ u64 ----------------------------------- *)
U64Zero == <<0, 0, 0, 0>>

\* file.metadata()?.len() as the seed of the accumulator (n < 2^31 here)
U64FromLen(n) == <<0, 0, n \div 65536, n % 65536>>

from_le_bytes(b) ==
    << b[8] * 256 + b[7], b[6] * 256 + b[5], b[4] * 256 + b[3], b[2] * 256 + b[1] >>

saturating_add(x, y) ==
    LET s4 == x[4] + y[4]
        s3 == x[3] + y[3] + s4 \div 65536
        s2 == x[2] + y[2] + s3 \div 65536
        s1 == x[1] + y[1] + s2 \div 65536
    IN  IF s1 >= 65536 THEN <<65535, 65535, 65535, 65535>>
        ELSE << s1, s2 % 65536, s3 % 65536, s4 % 65536 >>

wrapping_add(x, y) ==
    LET s4 == x[4] + y[4]
        s3 == x[3] + y[3] + s4 \div 65536
        s2 == x[2] + y[2] + s3 \div 65536
        s1 == x[1] + y[1] + s2 \div 65536
    IN  << s1 % 65536, s2 % 65536, s3 % 65536, s4 % 65536 >>

(* ----------------------------- Error ---------------------------------- *)
\* an io::Error: its portable kind and the raw OS code it came with
IoError(k, raw) == [kind |-> k, raw |-> raw]
NoIoError == [kind |-> "none", raw |-> 0]

SmallSize == [tag |-> "SmallSize", kind |-> "none"]
Io(k) == [tag |-> "Io", kind |-> k]

ErrorFromLossy(value) == Io("Other")

\* impl From<io::Error> for Error
ErrorFrom(value) == Io(value.kind)

\* Display of io::ErrorKind (the standard library's description table)
ErrorKindDescription(k) ==
    CASE k = "NotFound" -> "entity not found"
      [] k = "PermissionDenied" -> "permission denied"
      [] k = "InvalidFilename" -> "invalid filename"
      [] k = "UnexpectedEof" -> "unexpected end of file"
      [] k = "TimedOut" -> "timed out"
      [] k = "Other" -> "other error"
      [] OTHER -> "uncategorized error"

DisplayErrorDebug(e) ==
    IF e.tag = "SmallSize" THEN "SmallSize" ELSE e.kind

\* impl Display for Error
DisplayError(e) ==
    IF e.tag = "SmallSize" THEN "file size is less than 64 KB"
    ELSE ErrorKindDescription(e.kind)

(* --------------------------- MovieHash -------------------------------- *)
HexLower == <<"0","1","2","3","4","5","6","7","8","9","a","b","c","d","e","f">>

\* v / 16 on the limbs
Shr4(v) ==
    << v[1] \div 16,
       (v[1] % 16) * 4096 + v[2] \div 16,
       (v[2] % 16) * 4096 + v[3] \div 16,
       (v[3] % 16) * 4096 + v[4] \div 16 >>

\* the digits the LowerHex formatter emits: least significant digit first,
\* until the value is exhausted, at least one digit
RECURSIVE HexDigits(_)
HexDigits(v) ==
    LET d == HexLower[(v[4] % 16) + 1]
    IN  IF Shr4(v) = U64Zero THEN <<d>>
        ELSE HexDigits(Shr4(v)) \o <<d>>

\* padding of the formatter to a minimum width
PadLeft(s, width, fill) ==
    [k \in 1..(IF Len(s) < width THEN width - Len(s) ELSE 0) |-> fill] \o s

\* format!("{:x}", v): no width
FormatHexNoPad(v) == HexDigits(v)

\* format!("{:016x}", v)
FormatHex016(v) == PadLeft(HexDigits(v), HexWidth, "0")

\* MovieHash::new
new(h) == [tag |-> "MovieHash", v |-> h]

\* MovieHash::as_hex
as_hex(self) == FormatHex016(self.v)

\* impl Display for MovieHash
DisplayMovieHash(self) == FormatHex016(self.v)

(* --------------------------- filesystem ------------------------------- *)
Absent == [exists |-> FALSE, data |-> <<>>]

PatByte(pat, k) == IF pat = "ff" THEN 255 ELSE (k * 37 + 200) % 256

MkFile(len, pat) == [exists |-> TRUE, data |-> [k \in 1..len |-> PatByte(pat, k)]]

\* files of exactly one window, of overlapping windows, of disjoint windows,
\* too short by one byte, empty, and no file at all
Contents ==
    << MkFile(CHUNK_SIZE, "ff"), Absent, MkFile(CHUNK_SIZE + 3, "ramp"),
       MkFile(CHUNK_SIZE - 1, "ramp"), MkFile(CHUNK_SIZE, "ramp"),
       MkFile(2 * CHUNK_SIZE, "ramp"), MkFile(0, "ff"),
       MkFile(2 * CHUNK_SIZE + 1, "ff") >>

\* the filesystems a run starts from: every content at either path
FileSystems ==
    { [p \in Paths |-> IF p = "a" THEN Contents[k]
                                  ELSE Contents[(k % Len(Contents)) + 1]] :
      k \in 1..Len(Contents) }

\* the I/O failures the platform may answer an operation with
OpenFailures == {IoError("PermissionDenied", 13), IoError("InvalidFilename", 123)}
IoFailures == {IoError("TimedOut", 110)}

\* read(2) of a regular file: at most cap bytes from pos, fewer at the end
FileRead(data, pos, cap) ==
    IF pos < 0 \/ pos >= Len(data) THEN <<>>
    ELSE SubSeq(data, pos + 1, Min(pos + cap, Len(data)))

NoHandle == [open |-> FALSE, path |-> "", pos |-> 0]

(* ---------------------- MovieHash::from_path -------------------------- *)
NoResult == [tag |-> "None"]
Ok(h) == [tag |-> "Ok", val |-> h]
Err(e) == [tag |-> "Err", err |-> e]

IdleCall == [pc |-> "idle", path |-> "", file_size |-> 0, hash |-> U64Zero,
             i |-> 0, buf |-> <<>>, result |-> NoResult, io_err |-> NoIoError,
             reads |-> 0, seeks |-> 0]

\* reader.read_exact(&mut word_buffer) on the BufReader: bytes come from the
\* buffer; an empty buffer is refilled with one read of the file
RECURSIVE read_exact(_, _, _, _)
read_exact(buf, pos, data, got) ==
    LET need == WordBytes - Len(got)
    IN  IF need = 0
        THEN [ok |-> TRUE, word |-> got, buf |-> buf, pos |-> pos]
        ELSE IF Len(buf) > 0
        THEN LET n == Min(need, Len(buf))
             IN  read_exact(SubSeq(buf, n + 1, Len(buf)), pos, data,
                            got \o SubSeq(buf, 1, n))
        ELSE LET fill == FileRead(data, pos, CHUNK_SIZE)
             IN  IF Len(fill) = 0
                 THEN [ok |-> FALSE, word |-> got, buf |-> <<>>, pos |-> pos]
                 ELSE read_exact(fill, pos + Len(fill), data, got)

SmallSizeCheckOff(file_size) == FALSE

SmallSizeCheckInclusive(file_size) == file_size <= CHUNK_SIZE

\* if file_size < CHUNK_SIZE
SmallSizeCheck(file_size) == file_size < CHUNK_SIZE

SeekOffsetNoBack(file_size) == file_size

\* SeekFrom::Start(file_size - CHUNK_SIZE); a negative value stands for the
\* underflow of the unsigned subtraction
SeekOffset(file_size) == file_size - CHUNK_SIZE

RaiseIgnored(r, e) == [r EXCEPT !.io_err = e]

\* .map_err(Error::from)? : the call returns Err(Error::from(e)) at once
Raise(r, e) ==
    [r EXCEPT !.pc = "done", !.result = Err(ErrorFrom(e)), !.io_err = e,
              !.buf = <<>>]

Leak(c) == handles

\* the File (inside the BufReader) goes out of scope
Drop(c) == [handles EXCEPT ![c] = NoHandle]

ReadPosShared(c) == handles[1].pos

\* the cursor of the call's own file handle
ReadPos(c) == handles[c].pos

\* File::open(path) succeeds
Open(c, p) ==
    /\ call[c].pc = "idle"
    /\ \A d \in Calls : d < c => call[d].pc # "idle"
    /\ fs[p].exists
    /\ call' = [call EXCEPT ![c].pc = "metadata", ![c].path = p]
    /\ handles' = [handles EXCEPT ![c] = [open |-> TRUE, path |-> p, pos |-> 0]]
    /\ UNCHANGED <<fs, touched, obj, hex_out, disp_out, msg_out>>

\* File::open(path) fails: the path does not exist, or the platform refuses
OpenErr(c, p, e) ==
    /\ call[c].pc = "idle"
    /\ \A d \in Calls : d < c => call[d].pc # "idle"
    /\ IF fs[p].exists THEN e \in OpenFailures ELSE e = IoError("NotFound", 2)
    /\ call' = [call EXCEPT ![c] = Raise([call[c] EXCEPT !.path = p], e)]
    /\ UNCHANGED <<fs, touched, handles, obj, hex_out, disp_out, msg_out>>

\* file.metadata()?.len()
Metadata(c) ==
    /\ call[c].pc = "metadata"
    /\ call' = [call EXCEPT ![c].pc = "check",
                            ![c].file_size = Len(fs[handles[c].path].data)]
    /\ UNCHANGED <<fs, touched, handles, obj, hex_out, disp_out, msg_out>>

MetadataErr(c, e) ==
    /\ call[c].pc = "metadata"
    /\ e \in IoFailures
    /\ call' = [call EXCEPT ![c] = Raise(call[c], e)]
    /\ handles' = Drop(c)
    /\ UNCHANGED <<fs, touched, obj, hex_out, disp_out, msg_out>>

\* the size guard, then the set-up of hash, reader, word_buffer, word_count
CheckSize(c) ==
    /\ call[c].pc = "check"
    /\ IF SmallSizeCheck(call[c].file_size)
       THEN /\ call' = [call EXCEPT ![c].pc = "done", ![c].result = Err(SmallSize)]
            /\ handles' = Drop(c)
       ELSE /\ call' = [call EXCEPT ![c].pc = "head", ![c].i = 0, ![c].buf = <<>>,
                                    ![c].hash = U64FromLen(call[c].file_size)]
            /\ UNCHANGED handles
    /\ UNCHANGED <<fs, touched, obj, hex_out, disp_out, msg_out>>

\* one iteration of a window loop: read_exact, then wrapping_add
ReadWord(c, loop, after) ==
    LET r == call[c]
        rd == read_exact(r.buf, ReadPos(c), fs[handles[c].path].data, <<>>)
    IN  /\ r.pc = loop
        /\ r.i < word_count
        /\ rd.ok
        /\ call' = [call EXCEPT ![c] =
              [r EXCEPT !.hash = wrapping_add(r.hash, from_le_bytes(rd.word)),
                        !.buf = rd.buf, !.i = r.i + 1, !.reads = r.reads + 1,
                        !.pc = IF r.i + 1 = word_count THEN after ELSE loop]]
        /\ handles' = [handles EXCEPT ![c].pos = rd.pos]
        /\ UNCHANGED <<fs, touched, obj, hex_out, disp_out, msg_out>>

\* read_exact meets the end of the file before the word is complete
ReadWordEof(c, loop) ==
    LET r == call[c]
        rd == read_exact(r.buf, ReadPos(c), fs[handles[c].path].data, <<>>)
    IN  /\ r.pc = loop
        /\ r.i < word_count
        /\ ~rd.ok
        /\ call' = [call EXCEPT ![c] =
              Raise([r EXCEPT !.reads = r.reads + 1], IoError("UnexpectedEof", 0))]
        /\ handles' = Drop(c)
        /\ UNCHANGED <<fs, touched, obj, hex_out, disp_out, msg_out>>

\* the read of the file that refills the buffer fails
ReadWordErr(c, loop, e) ==
    LET r == call[c]
    IN  /\ r.pc = loop
        /\ r.i < word_count
        /\ Len(r.buf) < WordBytes
        /\ e \in IoFailures
        /\ call' = [call EXCEPT ![c] = Raise([r EXCEPT !.reads = r.reads + 1], e)]
        /\ handles' = Drop(c)
        /\ UNCHANGED <<fs, touched, obj, hex_out, disp_out, msg_out>>

\* for _ in 0..word_count, the window at the start of the file
ReadHead(c) ==
    /\ call[c].pc = "head"
    /\ ReadWord(c, "head", "seek")

ReadHeadEof(c) ==
    /\ call[c].pc = "head"
    /\ ReadWordEof(c, "head")

ReadHeadErr(c, e) ==
    /\ call[c].pc = "head"
    /\ ReadWordErr(c, "head", e)

\* reader.seek(SeekFrom::Start(file_size - CHUNK_SIZE)): the buffer is
\* discarded and the file cursor moved
Seek(c) ==
    /\ call[c].pc = "seek"
    /\ call' = [call EXCEPT ![c].pc = "tail", ![c].i = 0, ![c].buf = <<>>,
                            ![c].seeks = call[c].seeks + 1]
    /\ handles' = [handles EXCEPT ![c].pos = SeekOffset(call[c].file_size)]
    /\ UNCHANGED <<fs, touched, obj, hex_out, disp_out, msg_out>>

SeekErr(c, e) ==
    /\ call[c].pc = "seek"
    /\ e \in IoFailures
    /\ call' = [call EXCEPT ![c] = Raise([call[c] EXCEPT !.seeks = call[c].seeks + 1], e)]
    /\ handles' = Drop(c)
    /\ UNCHANGED <<fs, touched, obj, hex_out, disp_out, msg_out>>

\* for _ in 0..word_count, the window at the end of the file
ReadTail(c) ==
    /\ call[c].pc = "tail"
    /\ ReadWord(c, "tail", "finish")

ReadTailEof(c) ==
    /\ call[c].pc = "tail"
    /\ ReadWordEof(c, "tail")

ReadTailErr(c, e) ==
    /\ call[c].pc = "tail"
    /\ ReadWordErr(c, "tail", e)

\* Ok(MovieHash::new(hash))
Finish(c) ==
    /\ call[c].pc = "finish"
    /\ call' = [call EXCEPT ![c].pc = "done", ![c].result = Ok(new(call[c].hash)),
                            ![c].buf = <<>>]
    /\ handles' = Drop(c)
    /\ UNCHANGED <<fs, touched, obj, hex_out, disp_out, msg_out>>

\* the environment cuts the last byte off a file (once per path)
Truncate(p) ==
    /\ fs[p].exists
    /\ p \notin touched
    /\ Cardinality(touched) < MaxTruncations
    /\ Len(fs[p].data) > 0
    /\ fs' = [fs EXCEPT ![p].data = SubSeq(fs[p].data, 1, Len(fs[p].data) - 1)]
    /\ touched' = touched \cup {p}
    /\ UNCHANGED <<handles, call, obj, hex_out, disp_out, msg_out>>

NoObj == [tag |-> "none"]
NoText == <<>>

Init ==
    /\ fs \in FileSystems
    /\ touched = {}
    /\ handles = [c \in Calls |-> NoHandle]
    /\ call = [c \in Calls |-> IdleCall]
    /\ obj = NoObj
    /\ hex_out = NoText
    /\ disp_out = NoText
    /\ msg_out = ""

AllFailures == OpenFailures \cup IoFailures \cup {IoError("NotFound", 2)}

Next ==
    \/ \E c \in Calls, p \in Paths : Open(c, p)
    \/ \E c \in Calls, p \in Paths, e \in AllFailures : OpenErr(c, p, e)
    \/ \E c \in Calls : Metadata(c)
    \/ \E c \in Calls, e \in IoFailures : MetadataErr(c, e)
    \/ \E c \in Calls : CheckSize(c)
    \/ \E c \in Calls : ReadHead(c)
    \/ \E c \in Calls : ReadHeadEof(c)
    \/ \E c \in Calls, e \in IoFailures : ReadHeadErr(c, e)
    \/ \E c \in Calls : Seek(c)
    \/ \E c \in Calls, e \in IoFailures : SeekErr(c, e)
    \/ \E c \in Calls : ReadTail(c)
    \/ \E c \in Calls : ReadTailEof(c)
    \/ \E c \in Calls, e \in IoFailures : ReadTailErr(c, e)
    \/ \E c \in Calls : Finish(c)
    \/ \E p \in Paths : Truncate(p)

Spec == Init /\ [][Next]_vars

(* ------------------- rendering of values and errors ------------------- *)
LimbValues == {0, 1, 2748, 32768, 65535}
TestValues == {<<a, b, c, d>> : a \in LimbValues, b \in LimbValues,
                                c \in LimbValues, d \in LimbValues}
TestErrors == {SmallSize} \cup
    {Io(k) : k \in {"NotFound", "InvalidFilename", "PermissionDenied", "UnexpectedEof"}}

\* MovieHash::new(hash) on a known integer
NewHash(v) ==
    /\ obj' = new(v)
    /\ hex_out' = NoText
    /\ disp_out' = NoText
    /\ msg_out' = ""
    /\ UNCHANGED <<fs, touched, handles, call>>

AsHex ==
    /\ obj.tag = "MovieHash"
    /\ hex_out' = as_hex(obj)
    /\ UNCHANGED <<fs, touched, handles, call, obj, disp_out, msg_out>>

FmtMovieHash ==
    /\ obj.tag = "MovieHash"
    /\ disp_out' = DisplayMovieHash(obj)
    /\ UNCHANGED <<fs, touched, handles, call, obj, hex_out, msg_out>>

NewError(e) ==
    /\ obj' = [tag |-> "Error", e |-> e]
    /\ hex_out' = NoText
    /\ disp_out' = NoText
    /\ msg_out' = ""
    /\ UNCHANGED <<fs, touched, handles, call>>

FmtError ==
    /\ obj.tag = "Error"
    /\ msg_out' = DisplayError(obj.e)
    /\ UNCHANGED <<fs, touched, handles, call, obj, hex_out, disp_out>>

InitFmt ==
    /\ fs = [p \in Paths |-> Absent]
    /\ touched = {}
    /\ handles = [c \in Calls |-> NoHandle]
    /\ call = [c \in Calls |-> IdleCall]
    /\ obj = NoObj
    /\ hex_out = NoText
    /\ disp_out = NoText
    /\ msg_out = ""

NextFmt ==
    \/ \E v \in TestValues : NewHash(v)
    \/ AsHex
    \/ FmtMovieHash
    \/ \E e \in TestErrors : NewError(e)
    \/ FmtError

SpecFmt == InitFmt /\ [][NextFmt]_vars

(* ------------------------ reference computations ---------------------- *)
\* byte j (0 = least significant) of a length
LenByte(n, j) == IF j > 3 THEN 0 ELSE (n \div 256^j) % 256

\* sum of the bytes at place j of the word_count words that start at offset
RECURSIVE ColumnSum(_, _, _, _)
ColumnSum(data, offset, j, w) ==
    IF w = 0 THEN 0
    ELSE data[offset + WordBytes * (w - 1) + j + 1] + ColumnSum(data, offset, j, w - 1)

\* column j of  L + head words + tail words, before carries
RefColumn(data, j) ==
    LenByte(Len(data), j) + ColumnSum(data, 0, j, CHUNK_SIZE \div WordBytes)
        + ColumnSum(data, Len(data) - CHUNK_SIZE, j, CHUNK_SIZE \div WordBytes)

RECURSIVE RefCarry(_, _)
RefCarry(data, j) ==
    IF j < 0 THEN 0 ELSE (RefColumn(data, j) + RefCarry(data, j - 1)) \div 256

RefByte(data, j) == (RefColumn(data, j) + RefCarry(data, j - 1)) % 256

\* (L + sum of head words + sum of tail words) mod 2^64, the carry out of
\* byte 7 dropped
RefHash(data) ==
    << RefByte(data, 7) * 256 + RefByte(data, 6), RefByte(data, 5) * 256 + RefByte(data, 4),
       RefByte(data, 3) * 256 + RefByte(data, 2), RefByte(data, 1) * 256 + RefByte(data, 0) >>

\* column j of  CHUNK_SIZE + 2 * (sum of the words of a one-window file)
TwiceColumn(data, j) ==
    LenByte(CHUNK_SIZE, j) + 2 * ColumnSum(data, 0, j, CHUNK_SIZE \div WordBytes)

RECURSIVE TwiceCarry(_, _)
TwiceCarry(data, j) ==
    IF j < 0 THEN 0 ELSE (TwiceColumn(data, j) + TwiceCarry(data, j - 1)) \div 256

TwiceByte(data, j) == (TwiceColumn(data, j) + TwiceCarry(data, j - 1)) % 256

TwiceHash(data) ==
    << TwiceByte(data, 7) * 256 + TwiceByte(data, 6), TwiceByte(data, 5) * 256 + TwiceByte(data, 4),
       TwiceByte(data, 3) * 256 + TwiceByte(data, 2), TwiceByte(data, 1) * 256 + TwiceByte(data, 0) >>

\* digit k (1 = leftmost) of the 16-digit big-endian hexadecimal form
RefHexDigit(v, k) ==
    (v[((k - 1) \div 4) + 1] \div 16^(3 - ((k - 1) % 4))) % 16

LowerHexChars == {"0","1","2","3","4","5","6","7","8","9","a","b","c","d","e","f"}

IsRefHex(s, v) ==
    /\ Len(s) = 16
    /\ \A k \in 1..16 : s[k] \in LowerHexChars /\ s[k] = HexLower[RefHexDigit(v, k) + 1]

\* a finished call whose file was never cut and none of whose I/O failed
CleanDone(c) ==
    /\ call[c].pc = "done"
    /\ call[c].io_err = NoIoError
    /\ call[c].path \notin touched

(* ------------------------------ claims -------------------------------- *)
\* C1: a call on a file of length L >= CHUNK_SIZE with no failing I/O returns
\* Ok((L + sum of the head words + sum of the tail words) mod 2^64); the
\* overflow wraps and is no error.
C1_HashIsWrappedSum ==
    \A c \in Calls :
        (CleanDone(c) /\ Len(fs[call[c].path].data) >= CHUNK_SIZE)
            => call[c].result = Ok(new(RefHash(fs[call[c].path].data)))

C1_Witness ==
    \E c \in Calls :
        /\ CleanDone(c)
        /\ call[c].result.tag = "Ok"
        /\ RefCarry(fs[call[c].path].data, 7) > 0

\* C2: a file that opens and stats with length L < CHUNK_SIZE gives
\* Err(SmallSize), and no read or seek has been made on it.
C2_SmallSizeBeforeAnyRead ==
    \A c \in Calls :
        /\ call[c].pc \in {"head", "seek", "tail", "finish"}
              => call[c].file_size >= CHUNK_SIZE
        /\ (call[c].pc = "done" /\ call[c].io_err = NoIoError
                /\ call[c].file_size < CHUNK_SIZE)
              => /\ call[c].result = Err(SmallSize)
                 /\ call[c].reads = 0
                 /\ call[c].seeks = 0

C2_Witness ==
    \E c \in Calls :
        /\ call[c].pc = "done"
        /\ call[c].file_size = CHUNK_SIZE - 1
        /\ call[c].result = Err(SmallSize)
        /\ call[c].reads = 0

\* C3: an I/O failure of kind k in open, metadata, seek or read_exact makes
\* the call return Err(Io(k)), never SmallSize and never Ok; a path that
\* does not exist gives Io(NotFound); Io is returned for no other cause.
C3_IoKindPreserved ==
    \A c \in Calls :
        /\ call[c].io_err # NoIoError
              => call[c].pc = "done" /\ call[c].result = Err(Io(call[c].io_err.kind))
        /\ (call[c].pc = "done" /\ ~fs[call[c].path].exists)
              => call[c].result = Err(Io("NotFound"))
        /\ (call[c].result.tag = "Err" /\ call[c].result.err.tag = "Io")
              => call[c].io_err # NoIoError

C3_Witness ==
    \E c, d \in Calls :
        /\ call[c].result = Err(Io("NotFound"))
        /\ call[d].result = Err(Io("TimedOut"))
        /\ call[d].seeks = 1

\* C4: as_hex of any 64-bit value is its 16-digit, zero-padded, lowercase,
\* big-endian hexadecimal form, and Display gives the same string.
C4_HexRendering ==
    /\ hex_out # NoText => IsRefHex(hex_out, obj.v)
    /\ disp_out # NoText => IsRefHex(disp_out, obj.v)
    /\ (hex_out # NoText /\ disp_out # NoText) => hex_out = disp_out

C4_Witness ==
    /\ obj = new(<<32768, 0, 0, 2748>>)
    /\ hex_out = <<"8","0","0","0","0","0","0","0","0","0","0","0","0","a","b","c">>
    /\ disp_out = hex_out

\* C5: calls on the same unchanged file, in whatever order or interleaving
\* they ran with each other and with calls on other paths, return the same
\* result.
C5_Deterministic ==
    \A c, d \in Calls :
        (CleanDone(c) /\ CleanDone(d) /\ call[c].path = call[d].path)
            => call[c].result = call[d].result

C5_Witness ==
    \E c, d \in Calls :
        /\ c # d
        /\ CleanDone(c) /\ CleanDone(d)
        /\ call[c].path = call[d].path
        /\ call[c].result.tag = "Ok"
        /\ call[d].result = call[c].result

\* C6: Ok is returned only after all word_count head words and all
\* word_count tail words were read; a failing step ends the call with Err
\* in that very step, and a call that has returned takes no further step.
C6_NoPartialResult ==
    [][\A c \in Calls :
          /\ call'[c].result.tag = "Ok"
                => /\ call'[c].reads = 2 * (CHUNK_SIZE \div WordBytes)
                   /\ call'[c].seeks = 1
                   /\ call'[c].io_err = NoIoError
          /\ call'[c].io_err # NoIoError
                => call'[c].pc = "done" /\ call'[c].result.tag = "Err"
          /\ call[c].pc = "done" => call'[c] = call[c]]_vars

C6_Witness ==
    \E c \in Calls :
        /\ call[c].pc = "done"
        /\ call[c].io_err = IoError("UnexpectedEof", 0)
        /\ call[c].reads > 1
        /\ call[c].hash # U64FromLen(call[c].file_size)
        /\ call[c].result = Err(Io("UnexpectedEof"))

\* C7: Display of SmallSize is "file size is less than 64 KB", of
\* Io(NotFound) "entity not found", of Io(InvalidFilename) "invalid filename".
C7_ErrorMessages ==
    (obj.tag = "Error" /\ msg_out # "") =>
        /\ obj.e = SmallSize => msg_out = "file size is less than 64 KB"
        /\ obj.e = Io("NotFound") => msg_out = "entity not found"
        /\ obj.e = Io("InvalidFilename") => msg_out = "invalid filename"

C7_Witness ==
    /\ obj.tag = "Error"
    /\ obj.e = Io("InvalidFilename")
    /\ msg_out = "invalid filename"

\* C8: a file of exactly CHUNK_SIZE bytes is accepted, its tail window
\* starts at offset 0, and the result is
\* (CHUNK_SIZE + 2 * sum of its words) mod 2^64.
C8_ExactlyOneWindow ==
    \A c \in Calls :
        /\ (CleanDone(c) /\ Len(fs[call[c].path].data) = CHUNK_SIZE)
              => call[c].result = Ok(new(TwiceHash(fs[call[c].path].data)))
        /\ (call[c].pc = "tail" /\ call[c].i = 0 /\ call[c].file_size = CHUNK_SIZE)
              => handles[c].pos = 0

C8_Witness ==
    \E c \in Calls :
        /\ CleanDone(c)
        /\ call[c].file_size = CHUNK_SIZE
        /\ call[c].result.tag = "Ok"
        /\ call[c].reads = 2 * word_count

\* C9: when a call has returned, on any path, its file handle is released.
C9_HandleReleased ==
    \A c \in Calls :
        /\ call[c].pc \in {"idle", "done"} => ~handles[c].open
        /\ handles[c].open => handles[c].path = call[c].path

C9_Witness ==
    /\ \A c \in Calls : call[c].pc = "done" /\ ~handles[c].open
    /\ \E c \in Calls : call[c].result = Err(SmallSize)
    /\ \E c \in Calls : call[c].result.tag = "Err" /\ call[c].reads > 0

\* C10: the seek happens only with file_size >= CHUNK_SIZE, goes to
\* file_size - CHUNK_SIZE >= 0, the tail window read from there ends at
\* file_size, and for file_size < 2 * CHUNK_SIZE it starts inside the head
\* window.
C10_TailWindow ==
    \A c \in Calls :
        LET r == call[c]
            at == handles[c].pos - Len(r.buf)
        IN  /\ r.pc \in {"head", "seek", "tail", "finish"} => r.file_size >= CHUNK_SIZE
            /\ r.seeks > 0 => r.file_size >= CHUNK_SIZE
            /\ r.pc = "tail"
                  => /\ at = r.file_size - CHUNK_SIZE + WordBytes * r.i
                     /\ at >= 0
                     /\ r.file_size < 2 * CHUNK_SIZE => at - WordBytes * r.i < CHUNK_SIZE
            /\ r.pc = "finish" => at = r.file_size

C10_Witness ==
    \E c \in Calls :
        /\ call[c].pc = "finish"
        /\ call[c].file_size = CHUNK_SIZE + 3
        /\ handles[c].pos - Len(call[c].buf) = call[c].file_size

====
